---- MODULE Spec2Model ----
(***************************************************************************)
(* A model of pydie: the REST fetcher (pydie/rest/fetchers.py), its        *)
(* address resolver, and the schema-driven SQL coercion                    *)
(* (pydie/response_to_sql.py).                                             *)
(*                                                                         *)
(* Python values are tagged records.  A Python str whose characters the    *)
(* code reads or builds (paths, formats, raw values, SQL literals) is a    *)
(* sequence of one-character strings; identifiers the code only compares   *)
(* or looks up (dictionary field names, exception names) are TLA+ strings. *)
(***************************************************************************)
EXTENDS Integers, Sequences, FiniteSets, TLC

VARIABLES
    schema,            \* get_sql: the schema mapping (property name -> property schema)
    property_name,     \* get_sql: the property looked up
    property_value,    \* get_sql: the raw value
    sql_out,           \* get_sql: not called yet, the SQLItem returned, or the exception raised
    data,              \* get_data_at_address: the payload
    address,           \* get_data_at_address: the address, a sequence of keys, or None
    nested,            \* the address and the leaf the payload was built from
    addr_out,          \* get_data_at_address: not called yet, the value returned, or the exception
    heap,              \* the FetcherConfiguration objects, node |-> configuration
    calls,             \* the calls the caller has made, with what each did
    error,             \* the exception that reached the caller, NoError while none has
    sql_response,      \* parse_response_into_sql: the response, property name -> raw value
    parse_out,         \* parse_response_into_sql: not called yet, the dict returned, or the exception
    url_path,          \* path_maker: the path
    url_parameters,    \* path_maker: the path parameters, a dict or None
    url_out,           \* path_maker: not called yet, the URL returned, or the exception
    http_verb,         \* generic request: which of the callables is called
    http_headers,      \* generic request: the headers argument
    http_payload,      \* generic request: the parameters or json argument
    http_status,       \* generic request: the status the server answers with
    http_out           \* generic request: not called yet, or what the call returned and made

sql_vars == <<schema, property_name, property_value, sql_out>>

addr_vars == <<data, address, nested, addr_out>>

fetch_vars == <<heap, calls, error>>

parse_vars == <<sql_response, parse_out>>

path_vars == <<url_path, url_parameters, url_out>>

http_vars == <<http_verb, http_headers, http_payload, http_status, http_out>>

vars == <<sql_vars, addr_vars, fetch_vars, parse_vars, path_vars, http_vars>>

(***************************************************************************)
(* Python values and call outcomes.                                        *)
(***************************************************************************)
PyNone == [k |-> "None"]

PyStr(s) == [k |-> "str", v |-> s]

PyInt(n) == [k |-> "int", v |-> n]

\* a float, held in tenths: PyFloat(1) is 0.1, PyFloat(6240) is 624.0
PyFloat(t) == [k |-> "float", v |-> t]

PyBool(b) == [k |-> "bool", v |-> b]

PyList(s) == [k |-> "list", v |-> s]

\* a dict, held as its items in insertion order: a sequence of [key, value]
PyDict(items) == [k |-> "dict", v |-> items]

Item(key, value) == [key |-> key, value |-> value]

\* an optional key of a configuration dict that is not set
Absent == [k |-> "absent"]

Return(v) == [ok |-> TRUE, v |-> v]

Raise(e) == [ok |-> FALSE, exc |-> e]

NotCalled == [ok |-> FALSE, exc |-> "not called"]

(***************************************************************************)
(* str: characters, search, conversion.                                    *)
(***************************************************************************)
DigitChars == <<"0", "1", "2", "3", "4", "5", "6", "7", "8", "9">>

IsDigit(c) == \E i \in 1..Len(DigitChars) : DigitChars[i] = c

DigitValue(c) == (CHOOSE i \in 1..Len(DigitChars) : DigitChars[i] = c) - 1

\* sub occurs in s at position i
OccursAt(s, sub, i) ==
    /\ i >= 1
    /\ i + Len(sub) - 1 <= Len(s)
    /\ SubSeq(s, i, i + Len(sub) - 1) = sub

\* Python `sub in s` for two str
Contains(s, sub) == \E i \in 1..(Len(s) + 1) : OccursAt(s, sub, i)

RECURSIVE DecimalOfNat(_)
DecimalOfNat(n) ==
    IF n < 10 THEN <<DigitChars[n + 1]>>
    ELSE DecimalOfNat(n \div 10) \o <<DigitChars[(n % 10) + 1]>>

\* str(n) of an int
DecimalOf(n) == IF n < 0 THEN <<"-">> \o DecimalOfNat(0 - n) ELSE DecimalOfNat(n)

RECURSIVE NatOfDigits(_)
NatOfDigits(s) ==
    IF s = <<>> THEN 0
    ELSE 10 * NatOfDigits(SubSeq(s, 1, Len(s) - 1)) + DigitValue(s[Len(s)])

AllDigits(s) == s # <<>> /\ \A i \in 1..Len(s) : IsDigit(s[i])

Unsigned(s) == IF s # <<>> /\ s[1] \in {"-", "+"} THEN Tail(s) ELSE s

Signed(s, n) == IF s # <<>> /\ s[1] = "-" THEN 0 - n ELSE n

\* the position of the decimal point of s, 0 when it has none
PointAt(s) == IF \E i \in 1..Len(s) : s[i] = "."
              THEN CHOOSE i \in 1..Len(s) : s[i] = "." /\ \A j \in 1..(i - 1) : s[j] # "."
              ELSE 0

RECURSIVE ReprSeq(_)
\* str(v) of a value; list elements are shown by repr, a str element in quotes
StrOf(v) ==
    CASE v.k = "str" -> v.v
      [] v.k = "int" -> DecimalOf(v.v)
      [] v.k = "float" ->
            (IF v.v < 0 THEN <<"-">> ELSE <<>>)
            \o DecimalOfNat((IF v.v < 0 THEN 0 - v.v ELSE v.v) \div 10)
            \o <<".">>
            \o DecimalOfNat((IF v.v < 0 THEN 0 - v.v ELSE v.v) % 10)
      [] v.k = "bool" -> IF v.v THEN <<"T", "r", "u", "e">> ELSE <<"F", "a", "l", "s", "e">>
      [] v.k = "None" -> <<"N", "o", "n", "e">>
      [] v.k = "list" -> <<"[">> \o ReprSeq(v.v) \o <<"]">>
      [] OTHER -> <<"?">>

ReprOf(v) == IF v.k = "str" THEN <<"'">> \o v.v \o <<"'">> ELSE StrOf(v)

ReprSeq(s) ==
    IF s = <<>> THEN <<>>
    ELSE IF Len(s) = 1 THEN ReprOf(s[1])
    ELSE ReprOf(s[1]) \o <<",", " ">> \o ReprSeq(Tail(s))

\* Python int(v)
PyIntOf(v) ==
    CASE v.k = "int" -> Return(PyInt(v.v))
      [] v.k = "bool" -> Return(PyInt(IF v.v THEN 1 ELSE 0))
      [] v.k = "float" ->
            Return(PyInt(IF v.v < 0 THEN 0 - ((0 - v.v) \div 10) ELSE v.v \div 10))
      [] v.k = "str" ->
            IF AllDigits(Unsigned(v.v))
            THEN Return(PyInt(Signed(v.v, NatOfDigits(Unsigned(v.v)))))
            ELSE Raise("ValueError")
      [] OTHER -> Raise("TypeError")

\* Python float(v); a str is read as digits with at most one digit after the point
PyFloatOf(v) ==
    CASE v.k = "int" -> Return(PyFloat(10 * v.v))
      [] v.k = "bool" -> Return(PyFloat(IF v.v THEN 10 ELSE 0))
      [] v.k = "float" -> Return(v)
      [] v.k = "str" ->
            LET u == Unsigned(v.v)
                p == PointAt(u)
                whole == IF p = 0 THEN u ELSE SubSeq(u, 1, p - 1)
                frac == IF p = 0 THEN <<"0">> ELSE SubSeq(u, p + 1, Len(u))
            IN  IF AllDigits(whole) /\ AllDigits(frac) /\ Len(frac) = 1
                THEN Return(PyFloat(Signed(v.v, 10 * NatOfDigits(whole) + NatOfDigits(frac))))
                ELSE Raise("ValueError")
      [] OTHER -> Raise("TypeError")

(***************************************************************************)
(* rest/fetchers.get_data_at_address                                       *)
(***************************************************************************)
\* key is a key of the dict items
DictHas(items, key) == \E i \in 1..Len(items) : items[i].key = key

\* dict[key] of the dict items, for a key it has
DictAt(items, key) == items[CHOOSE i \in 1..Len(items) : items[i].key = key].value

\* the assignment that leaves the dict with the one key
DictPutAlone(items, key, value) == <<Item(key, value)>>

\* dict[key] = value: the value of a key it has is replaced in place, a new key is
\* added at the end
DictPut(items, key, value) ==
    IF DictHas(items, key)
    THEN [i \in 1..Len(items) |-> IF items[i].key = key THEN Item(key, value) ELSE items[i]]
    ELSE Append(items, Item(key, value))

RECURSIVE DictUpdate(_, _)
\* dict.update(other)
DictUpdate(items, other) ==
    IF other = <<>> THEN items
    ELSE DictUpdate(DictPut(items, other[1].key, other[1].value), Tail(other))

\* Python value[key], for the values a JSON body holds and a key that is a str
\* or an int
Subscript(value, key) ==
    CASE value.k = "dict" ->
            IF key.k = "str" /\ DictHas(value.v, key.v) THEN Return(DictAt(value.v, key.v))
            ELSE Raise("KeyError")
      [] value.k = "list" ->
            IF key.k # "int" THEN Raise("TypeError")
            ELSE IF key.v >= 0 /\ key.v < Len(value.v) THEN Return(value.v[key.v + 1])
            ELSE IF key.v < 0 /\ 0 - key.v <= Len(value.v)
            THEN Return(value.v[Len(value.v) + key.v + 1])
            ELSE Raise("IndexError")
      [] value.k = "str" ->
            IF key.k # "int" THEN Raise("TypeError")
            ELSE IF key.v >= 0 /\ key.v < Len(value.v)
            THEN Return(PyStr(<<value.v[key.v + 1]>>))
            ELSE IF key.v < 0 /\ 0 - key.v <= Len(value.v)
            THEN Return(PyStr(<<value.v[Len(value.v) + key.v + 1]>>))
            ELSE Raise("IndexError")
      [] OTHER -> Raise("TypeError")

RECURSIVE WalkAddress(_, _, _)
\* lines 118-120: the loop, from position index (counted from 0) on
WalkAddress(result, addr, index) ==
    IF index < Len(addr)
    THEN LET step == Subscript(result, addr[index + 1])
         IN  IF step.ok THEN WalkAddress(step.v, addr, index + 1) ELSE step
    ELSE Return(result)

\* lines 113-121; addr is None or a list of keys
get_data_at_address(d, addr) ==
    IF addr = PyNone \/ d.k = "list" THEN Return(d) ELSE WalkAddress(d, addr.v, 0)

(***************************************************************************)
(* rest/fetchers: path_maker, dependency_injector, fetcher, and the two    *)
(* functions that have no body.                                            *)
(*                                                                         *)
(* A FetcherConfiguration is a record of its keys, an optional key that is *)
(* not set holding Absent.  Configurations live in a heap, node |-> record, *)
(* because dependency_injector changes the child configurations in place    *)
(* and returns the very same objects: a dependent_requests dict maps a     *)
(* child path to the node of the child.                                    *)
(***************************************************************************)
RECURSIVE Replace(_, _, _)
\* str.replace(old, new) for a non-empty old: every occurrence, left to right
Replace(s, old, new) ==
    IF Len(s) < Len(old) THEN s
    ELSE IF SubSeq(s, 1, Len(old)) = old
    THEN new \o Replace(SubSeq(s, Len(old) + 1, Len(s)), old, new)
    ELSE <<s[1]>> \o Replace(Tail(s), old, new)

RECURSIVE FormatPath(_, _)
\* lines 67-70: the loop over path_parameters.items(); str.replace raises
\* TypeError for a replacement that is not a str
FormatPath(formatted_path, items) ==
    IF items = <<>> THEN Return(formatted_path)
    ELSE IF items[1].value.k # "str" THEN Raise("TypeError")
    ELSE FormatPath(Replace(formatted_path,
                            <<"{">> \o items[1].key \o <<"}">>,
                            items[1].value.v),
                    Tail(items))

\* lines 53-71
path_maker(base_url, path, path_parameters) ==
    IF path_parameters = PyNone THEN Return(base_url \o path)
    ELSE LET formatted == FormatPath(path, path_parameters.v)
         IN  IF formatted.ok THEN Return(base_url \o formatted.v) ELSE formatted

\* the values `for v in data` goes through, or the TypeError of a value that
\* cannot be iterated
Iterate(d) ==
    CASE d.k = "list" -> Return(d.v)
      [] d.k = "dict" -> Return([i \in 1..Len(d.v) |-> PyStr(d.v[i].key)])
      [] d.k = "str" -> Return([i \in 1..Len(d.v) |-> PyStr(<<d.v[i]>>)])
      [] OTHER -> Raise("TypeError")

RECURSIVE KeyOfEach(_, _)
\* [v[key] for v in records], or the first exception
KeyOfEach(records, key) ==
    IF records = <<>> THEN Return(<<>>)
    ELSE LET first == Subscript(records[1], key)
             rest == KeyOfEach(Tail(records), key)
         IN  IF ~first.ok THEN first
             ELSE IF ~rest.ok THEN rest
             ELSE Return(<<first.v>> \o rest.v)

\* line 98: the list a response's records give for a key
ExtractedValues(d, key) ==
    LET records == Iterate(d)
    IN  IF ~records.ok THEN records
        ELSE LET values == KeyOfEach(records.v, key)
             IN  IF values.ok THEN Return(PyList(values.v)) ELSE values

RECURSIVE InjectEach(_, _, _, _)
\* lines 86-99: the loop over response_properties.items(); the outcome and the
\* heap as the loop left it
InjectEach(items, dependent_requests, response_data, mem) ==
    IF items = <<>> THEN [outcome |-> Return(dependent_requests), heap |-> mem]
    ELSE
    LET path == items[1].key
        property == items[1].value
        found == get_data_at_address(response_data, property.parametrizable_proterty_address)
    IN  IF ~found.ok THEN [outcome |-> found, heap |-> mem]
        ELSE IF ~DictHas(dependent_requests.v, path)
        THEN [outcome |-> Raise("KeyError"), heap |-> mem]
        ELSE
        LET child == DictAt(dependent_requests.v, path)
            named == IF mem[child].target_table = Absent
                     THEN [mem EXCEPT ![child].target_table = PyStr(path)]
                     ELSE mem
        IN  IF named[child].parametrizable_values = Absent
            THEN [outcome |-> Raise("KeyError"), heap |-> named]
            ELSE
            LET ready == IF named[child].parametrizable_values = PyNone
                         THEN [named EXCEPT ![child].parametrizable_values = PyDict(<<>>)]
                         ELSE named
                values == ExtractedValues(found.v, PyStr(property.parametrizable_key))
            IN  IF ~values.ok THEN [outcome |-> values, heap |-> ready]
                ELSE InjectEach(
                        Tail(items), dependent_requests, response_data,
                        [ready EXCEPT ![child].parametrizable_values =
                            PyDict(DictPut(@.v, property.path_parameter_name, values.v))])

\* lines 74-100
dependency_injector(response_properties, dependent_requests, response_data, mem) ==
    IF response_properties = PyNone
    THEN [outcome |-> Raise("AttributeError"), heap |-> mem]
    ELSE InjectEach(response_properties.v, dependent_requests, response_data, mem)

\* lines 103-110: a function with a docstring and no body returns None
dependency_extractor(converter_configuration) == PyNone

\* lines 171-173: a function whose body is `...` returns None and calls nothing
dependent_fetcher(connection, engine) == PyNone

\* the status test that lets every 2xx answer through
StatusFailsAbove2xx(status_code) == status_code < 200 \/ status_code >= 300

\* the status test left out
StatusNeverFails(status_code) == FALSE

\* line 148
StatusFails(status_code) == status_code # 200

S_headers == <<"h", "e", "a", "d", "e", "r", "s">>

\* connection.get(key): None for a key that is not set
ConfigGet(value) == IF value = Absent THEN PyNone ELSE value

\* lines 140-142: the heap after the default headers were put into the headers
\* dict of the connection; a connection without request_function_parameters, or
\* without headers in them, has a throw-away dict updated instead
UpdateHeaders(mem, node, engine) ==
    LET parameters == mem[node].request_function_parameters
    IN  IF parameters # Absent /\ DictHas(parameters.v, S_headers)
        THEN [mem EXCEPT ![node].request_function_parameters =
                PyDict(DictPut(@.v, S_headers,
                    PyDict(DictUpdate(DictAt(@.v, S_headers).v, engine.default_headers.v))))]
        ELSE mem

\* lines 144-146: the call request_function(url=url, **request_function_parameters)
RequestOf(url, connection) ==
    [url |-> url,
     kwargs |-> IF connection.request_function_parameters = Absent
                THEN PyDict(<<>>)
                ELSE connection.request_function_parameters]

NoRequest == [url |-> <<>>, kwargs |-> Absent]

\* lines 124-168: fetcher(connection, engine) on the configuration at node, the
\* transport answering response: the outcome, the heap it leaves, the request it
\* made (NoRequest when it made none), and whether it read the body and ran the
\* extraction
fetcher(mem, node, engine, response) ==
    LET connection == mem[node]
        url == path_maker(engine.base_url, connection.path,
                          ConfigGet(connection.parametrizable_values))
        updated == UpdateHeaders(mem, node, engine)
        stopped(outcome, h, request, parsed, injected) ==
            [outcome |-> outcome, heap |-> h, request |-> request,
             parsed |-> parsed, injected |-> injected]
    IN  IF ~url.ok THEN stopped(url, mem, NoRequest, FALSE, FALSE)
        ELSE
        LET request == RequestOf(url.v, updated[node])
        IN  IF StatusFails(response.status_code)
            THEN stopped(Raise("BaseException"), updated, request, FALSE, FALSE)
            ELSE
            LET unwrapped ==
                    IF connection.top_level_data_address # Absent
                    THEN get_data_at_address(response.body, connection.top_level_data_address)
                    ELSE Return(response.body)
            IN  IF ~unwrapped.ok THEN stopped(unwrapped, updated, request, TRUE, FALSE)
                ELSE
                LET injected == dependency_injector(
                                    connection.response_properties_to_parametrize,
                                    connection.dependent_requests,
                                    unwrapped.v, updated)
                IN  IF ~injected.outcome.ok
                    THEN stopped(injected.outcome, injected.heap, request, TRUE, TRUE)
                    ELSE IF injected.heap[node].target_table = Absent
                    THEN stopped(Raise("KeyError"), injected.heap, request, TRUE, TRUE)
                    ELSE stopped(
                            Return([target_table |-> injected.heap[node].target_table,
                                    data |-> unwrapped.v,
                                    dependent_requests |-> injected.outcome.v]),
                            injected.heap, request, TRUE, TRUE)

(***************************************************************************)
(* integrator/open_api: the generic request callables.  Each operator      *)
(* gives what the call returned and the Response the underlying HTTP call  *)
(* produced; status_code is what the server answers.                       *)
(***************************************************************************)
S_User_Agent == <<"U", "s", "e", "r", "-", "A", "g", "e", "n", "t">>

\* the browser string of lines 33 and 46, by its first word
S_Mozilla == <<"M", "o", "z", "i", "l", "l", "a">>

\* lines 30-35 and 43-48: the headers get a User-Agent when they have none
WithUserAgent(headers) ==
    IF DictHas(headers.v, S_User_Agent) THEN headers
    ELSE PyDict(DictUpdate(headers.v, <<Item(S_User_Agent, PyStr(S_Mozilla))>>))

\* requests.get, put, post, delete: the Response of the server to the request
HttpCall(func, url, headers, payload, status_code) ==
    [k |-> "Response", status_code |-> status_code,
     func |-> func, url |-> url, headers |-> headers, payload |-> payload]

\* lines 24-36
GenericGET(url, headers, parameters, status_code) ==
    LET response == HttpCall("get", url, WithUserAgent(headers), parameters, status_code)
    IN  [outcome |-> Return(response), made |-> response]

\* lines 39-49
GenericMOD(func, url, headers, json, status_code) ==
    LET response == HttpCall(func, url, WithUserAgent(headers), json, status_code)
    IN  [outcome |-> Return(response), made |-> response]

\* lines 52-58: the call of GenericMOD is a statement, its value is dropped
GenericPUT(url, headers, json, status_code) ==
    [outcome |-> Return(PyNone), made |-> GenericMOD("put", url, headers, json, status_code).made]

\* lines 61-67
GenericDELETE(url, headers, json, status_code) ==
    [outcome |-> Return(PyNone),
     made |-> GenericMOD("delete", url, headers, json, status_code).made]

\* lines 70-76
GenericPOST(url, headers, json, status_code) ==
    [outcome |-> Return(PyNone), made |-> GenericMOD("post", url, headers, json, status_code).made]

\* rest/fetchers line 148: response.status_code of what a request function returned
StatusCodeOf(returned) ==
    IF returned.k = "Response" THEN Return(returned.status_code) ELSE Raise("AttributeError")

(***************************************************************************)
(* The date parsers get_sql calls.                                         *)
(***************************************************************************)
DatePattern == <<"%", "d", "/", "%", "m", "/", "%", "Y">>

\* datetime.strptime(value, pattern) for the day/month/year pattern of the
\* repository's schemas; any other pattern matches no value of the model
Strptime(value, pattern) ==
    IF value.k # "str" \/ pattern.k # "str" THEN Raise("TypeError")
    ELSE LET s == value.v
         IN  IF /\ pattern.v = DatePattern
                /\ Len(s) = 10
                /\ s[3] = "/" /\ s[6] = "/"
                /\ AllDigits(SubSeq(s, 1, 2))
                /\ AllDigits(SubSeq(s, 4, 5))
                /\ AllDigits(SubSeq(s, 7, 10))
                /\ NatOfDigits(SubSeq(s, 1, 2)) \in 1..31
                /\ NatOfDigits(SubSeq(s, 4, 5)) \in 1..12
             THEN Return([k |-> "datetime",
                          year |-> NatOfDigits(SubSeq(s, 7, 10)),
                          month |-> NatOfDigits(SubSeq(s, 4, 5)),
                          day |-> NatOfDigits(SubSeq(s, 1, 2))])
             ELSE Raise("ValueError")

\* dateutil's parser.parse(value): a library outside the repository; a str that
\* starts with a digit is read as a timestamp, kept as the text it was read from
ParserParse(value) ==
    IF value.k # "str" THEN Raise("TypeError")
    ELSE IF value.v # <<>> /\ IsDigit(value.v[1])
         THEN Return([k |-> "timestamp", text |-> value.v])
         ELSE Raise("ParserError")

(***************************************************************************)
(* response_to_sql.get_sql                                                 *)
(***************************************************************************)
S_NULL == <<"N", "U", "L", "L">>

S_array == <<"a", "r", "r", "a", "y">>

S_string == <<"s", "t", "r", "i", "n", "g">>

S_number == <<"n", "u", "m", "b", "e", "r">>

S_boolean == <<"b", "o", "o", "l", "e", "a", "n">>

S_object == <<"o", "b", "j", "e", "c", "t">>

S_date == <<"d", "a", "t", "e">>

S_date_time == <<"d", "a", "t", "e", "-", "t", "i", "m", "e">>

S_int32 == <<"i", "n", "t", "3", "2">>

S_int64 == <<"i", "n", "t", "6", "4">>

S_money == <<"m", "o", "n", "e", "y">>

S_VARCHAR_MAX == <<"V", "A", "R", "C", "H", "A", "R", "(", "M", "A", "X", ")">>

S_DATETIME == <<"D", "A", "T", "E", "T", "I", "M", "E">>

S_BIT == <<"B", "I", "T">>

S_INT == <<"I", "N", "T">>

S_BIGINT == <<"B", "I", "G", "I", "N", "T">>

S_FLOAT == <<"F", "L", "O", "A", "T">>

SQLItem(value, type) == [value |-> value, type |-> type]

\* dict.get(key): the value, or None when the key is absent
DictGet(d, key) == IF key \in DOMAIN d THEN d[key] ELSE PyNone

\* f"VARCHAR({max_length})"
VarcharOf(max_length) ==
    PyStr(<<"V", "A", "R", "C", "H", "A", "R", "(">> \o StrOf(max_length) \o <<")">>)

\* f"N'{property_value}'"
Quoted(value) == PyStr(<<"N", "'">> \o StrOf(value) \o <<"'">>)

\* property_schema["items"]["type"] in {"number", "string"}: TRUE, FALSE, or the
\* KeyError of a missing key
ItemsTypeHandled(property_schema) ==
    IF "items" \notin DOMAIN property_schema THEN Raise("KeyError")
    ELSE IF "type" \notin DOMAIN property_schema["items"] THEN Raise("KeyError")
    ELSE Return(property_schema["items"]["type"] \in {PyStr(S_number), PyStr(S_string)})

\* lines 109-110: a None raw value becomes the text NULL
NullSentinel(raw) == IF raw = PyNone THEN PyStr(S_NULL) ELSE raw

\* an SQLItem of the given type out of a conversion's outcome, or its exception
Typed(r, sqltype) == IF r.ok THEN Return(SQLItem(r.v, sqltype)) ELSE r

\* line 112: the outcome of the array test
IsHandledArray(property_schema) ==
    IF DictGet(property_schema, "type") = PyStr(S_array)
    THEN ItemsTypeHandled(property_schema)
    ELSE Return(FALSE)

\* line 113
ArrayRule(value) == Return(SQLItem(PyStr(StrOf(value)), PyStr(S_VARCHAR_MAX)))

\* the maxLength test placed after the date tests: it only sees properties that
\* no date rule has taken
IsBoundedStringAfterDates(property_schema) ==
    /\ DictGet(property_schema, "type") = PyStr(S_string)
    /\ DictGet(property_schema, "maxLength") # PyNone
    /\ DictGet(property_schema, "pattern") = PyNone
    /\ DictGet(property_schema, "format") # PyStr(S_date_time)

\* line 114
IsBoundedString(property_schema) ==
    /\ DictGet(property_schema, "type") = PyStr(S_string)
    /\ DictGet(property_schema, "maxLength") # PyNone

\* lines 115-117
BoundedStringRule(property_schema, value) ==
    IF value = PyStr(S_NULL)
    THEN Return(SQLItem(value, VarcharOf(DictGet(property_schema, "maxLength"))))
    ELSE Return(SQLItem(Quoted(value), VarcharOf(DictGet(property_schema, "maxLength"))))

\* line 118: the outcome of `pattern is not None and "date" in format`
IsPatternDate(property_schema) ==
    IF DictGet(property_schema, "pattern") = PyNone THEN Return(FALSE)
    ELSE IF DictGet(property_schema, "format").k # "str" THEN Raise("TypeError")
    ELSE Return(Contains(DictGet(property_schema, "format").v, S_date))

\* lines 119-121
PatternDateRule(property_schema, value) ==
    IF value = PyStr(S_NULL) THEN Return(SQLItem(value, PyStr(S_DATETIME)))
    ELSE Typed(Strptime(value, DictGet(property_schema, "pattern")), PyStr(S_DATETIME))

\* line 122
IsDateTime(property_schema) == DictGet(property_schema, "format") = PyStr(S_date_time)

\* lines 123-125
DateTimeRule(value) ==
    IF value = PyStr(S_NULL) THEN Return(SQLItem(value, PyStr(S_DATETIME)))
    ELSE Typed(ParserParse(value), PyStr(S_DATETIME))

\* lines 127-129
PlainStringRule(value) ==
    IF value = PyStr(S_NULL) THEN Return(SQLItem(value, PyStr(S_VARCHAR_MAX)))
    ELSE Return(SQLItem(Quoted(value), PyStr(S_VARCHAR_MAX)))

\* line 131
BooleanRule(value) == Typed(PyIntOf(value), PyStr(S_BIT))

\* the number rules with the int64 label given to int32 too
NumberRulesOneWidth(property_schema, value) ==
    LET type == DictGet(property_schema, "type")
        format == DictGet(property_schema, "format")
    IN  IF type = PyStr(S_number) /\ format \in {PyStr(S_int32), PyStr(S_int64)}
        THEN Typed(PyIntOf(value), PyStr(S_BIGINT))
        ELSE IF type = PyStr(S_number) /\ format = PyNone
        THEN Typed(PyFloatOf(value), PyStr(S_FLOAT))
        ELSE IF type = PyStr(S_number)
        THEN Return(SQLItem(value, format))
        ELSE Raise("Exception: SQL parsing cannot handle type")

\* lines 132-143: the number rules, and the exception when nothing matched
NumberRules(property_schema, value) ==
    LET type == DictGet(property_schema, "type")
        format == DictGet(property_schema, "format")
    IN  IF type = PyStr(S_number) /\ format = PyStr(S_int32)
        THEN Typed(PyIntOf(value), PyStr(S_INT))
        ELSE IF type = PyStr(S_number) /\ format = PyStr(S_int64)
        THEN Typed(PyIntOf(value), PyStr(S_BIGINT))
        ELSE IF type = PyStr(S_number) /\ format = PyNone
        THEN Typed(PyFloatOf(value), PyStr(S_FLOAT))
        ELSE IF type = PyStr(S_number)
        THEN Return(SQLItem(value, format))
        ELSE Raise("Exception: SQL parsing cannot handle type")

\* lines 112-143: the rules in the order the code tries them
get_sql_rules(property_schema, value) ==
    LET array == IsHandledArray(property_schema)
        dated == IsPatternDate(property_schema)
    IN  IF ~array.ok THEN array
        ELSE IF array.v THEN ArrayRule(value)
        ELSE IF IsBoundedString(property_schema) THEN BoundedStringRule(property_schema, value)
        ELSE IF ~dated.ok THEN dated
        ELSE IF dated.v THEN PatternDateRule(property_schema, value)
        ELSE IF IsDateTime(property_schema) THEN DateTimeRule(value)
        ELSE IF DictGet(property_schema, "type") = PyStr(S_string) THEN PlainStringRule(value)
        ELSE IF DictGet(property_schema, "type") = PyStr(S_boolean) THEN BooleanRule(value)
        ELSE NumberRules(property_schema, value)

\* line 100: the exception f"{property_name} not in provided schema"
NotInSchema(name) == [ok |-> FALSE, exc |-> "Exception: not in provided schema", name |-> name]

\* lines 99-143
get_sql(sch, name, raw) ==
    IF name \notin DOMAIN sch THEN NotInSchema(name)
    ELSE get_sql_rules(sch[name], NullSentinel(raw))

RECURSIVE ParseItemsSkipping(_, _)
\* the comprehension with the properties the schema lacks left out
ParseItemsSkipping(sch, items) ==
    IF items = <<>> THEN Return(<<>>)
    ELSE IF items[1].key \notin DOMAIN sch THEN ParseItemsSkipping(sch, Tail(items))
    ELSE LET first == get_sql(sch, items[1].key, items[1].value)
         IN  IF ~first.ok THEN first
             ELSE LET rest == ParseItemsSkipping(sch, Tail(items))
                  IN  IF ~rest.ok THEN rest
                      ELSE Return(<<Item(items[1].key, first.v)>> \o rest.v)

RECURSIVE ParseItems(_, _)
\* line 289: the comprehension over response.items(), in order; the first
\* exception of get_sql ends it and nothing of the dict built so far is returned
ParseItems(sch, items) ==
    IF items = <<>> THEN Return(<<>>)
    ELSE LET first == get_sql(sch, items[1].key, items[1].value)
         IN  IF ~first.ok THEN first
             ELSE LET rest == ParseItems(sch, Tail(items))
                  IN  IF ~rest.ok THEN rest
                      ELSE Return(<<Item(items[1].key, first.v)>> \o rest.v)

\* lines 146-289
parse_response_into_sql(sch, response) ==
    LET parsed == ParseItems(sch, response.v)
    IN  IF parsed.ok THEN Return(PyDict(parsed.v)) ELSE parsed

(***************************************************************************)
(* The schemas and raw values of the coercion specification.               *)
(***************************************************************************)
MaxLength == 30

\* the dictionary holding the entries of r that are present
Present(r) == [key \in {x \in DOMAIN r : r[x] # Absent} |-> r[key]]

SchemaTypes ==
    {Absent, PyStr(S_string), PyStr(S_number), PyStr(S_boolean), PyStr(S_array), PyStr(S_object)}

SchemaFormats ==
    {Absent, PyStr(S_int32), PyStr(S_int64), PyStr(S_money), PyStr(S_date), PyStr(S_date_time)}

SchemaPatterns == {Absent, PyStr(DatePattern)}

SchemaMaxLengths == {Absent, PyInt(MaxLength)}

SchemaItems == {Absent, [type |-> PyStr(S_string)], [type |-> PyStr(S_object)]}

PropertySchemas ==
    {Present([type |-> t, format |-> f, pattern |-> p, maxLength |-> m, items |-> i]) :
        t \in SchemaTypes, f \in SchemaFormats, p \in SchemaPatterns,
        m \in SchemaMaxLengths, i \in SchemaItems}

RawValues ==
    {PyNone,
     PyStr(S_NULL),
     PyStr(<<"a", "b", "c">>),
     PyStr(<<"6", "2", "4">>),
     PyStr(<<"-", "7">>),
     PyStr(<<"1", "0", "/", "1", "1", "/", "2", "0", "0", "3">>),
     PyInt(624),
     PyInt(0),
     PyFloat(1),
     PyBool(TRUE),
     PyList(<<PyStr(<<"a">>), PyStr(<<"b">>)>>)}

PropertyNames == {"prop", "inexistent_property"}

(***************************************************************************)
(* The payloads and addresses of the address specification.                *)
(***************************************************************************)
MaxAddress == 2

MaxIndex == 1

AddressKeys == {PyStr(<<"a">>), PyStr(<<"b">>)} \cup {PyInt(i) : i \in -1..MaxIndex}

RECURSIVE SeqsUpTo(_, _)
\* the sequences over S of length at most n
SeqsUpTo(S, n) ==
    IF n = 0 THEN {<<>>}
    ELSE LET shorter == SeqsUpTo(S, n - 1)
         IN  shorter \cup {<<x>> \o t : x \in S, t \in {u \in shorter : Len(u) = n - 1}}

Addresses == {PyList(a) : a \in SeqsUpTo(AddressKeys, MaxAddress)}

\* the addresses a payload is built from: field names and list positions
NestingAddresses ==
    {a \in Addresses : \A i \in 1..Len(a.v) : a.v[i].k = "int" => a.v[i].v >= 0}

Leaves == {PyInt(5), PyStr(<<"x", "y">>), PyNone, PyBool(TRUE)}

RECURSIVE Nest(_, _)
\* the payload that holds leaf at addr: a dict with the one field for a name, a
\* list filled with None up to the position for an index
Nest(addr, leaf) ==
    IF addr = <<>> THEN leaf
    ELSE IF addr[1].k = "str"
    THEN PyDict(<<Item(addr[1].v, Nest(Tail(addr), leaf))>>)
    ELSE PyList([i \in 1..(addr[1].v + 1) |->
                    IF i = addr[1].v + 1 THEN Nest(Tail(addr), leaf) ELSE PyNone])

(***************************************************************************)
(* The fetch specification: a caller holds two root configurations that    *)
(* share their child templates, calls fetcher on a root or on a child that *)
(* an earlier call returned, and may hand a result to dependency_extractor *)
(* or a configuration to dependent_fetcher.  The transport answers each    *)
(* request with a status and a body.  The repository catches no exception: *)
(* the first one raised reaches the caller and ends the run.               *)
(***************************************************************************)
MaxCalls == 3

MaxRecords == 2

S_users == <<"u", "s", "e", "r", "s">>

S_data == <<"d", "a", "t", "a">>

S_id == <<"i", "d">>

S_userID == <<"u", "s", "e", "r", "I", "D">>

S_Auth == <<"A", "u", "t", "h">>

UsersPath == <<"/", "u", "s", "e", "r", "s">>

AdminsPath == <<"/", "a", "d", "m", "i", "n", "s">>

OrdersPath ==
    <<"/", "u", "s", "e", "r", "s", "/", "{", "u", "s", "e", "r", "I", "D", "}",
      "/", "o", "r", "d", "e", "r", "s">>

StatusPath == <<"/", "s", "t", "a", "t", "u", "s">>

Engine ==
    [base_url |-> <<"a", "p", "i">>,
     default_headers |-> PyDict(<<Item(S_Auth, PyStr(<<"e", "n", "g">>))>>)]

Roots == {"users", "admins"}

Nodes == Roots \cup {"orders", "status"}

Generation(node) == IF node \in Roots THEN 0 ELSE 1

\* the extraction of the user ids for the orders template
UserIdProperty ==
    [path_parameter_name |-> S_userID,
     parametrizable_proterty_address |-> PyList(<<PyStr(S_users)>>),
     parametrizable_key |-> S_id]

ChildTemplates == PyDict(<<Item(OrdersPath, "orders"), Item(StatusPath, "status")>>)

Configuration(path, parameters, properties, values, children, table, top) ==
    [path |-> path,
     request_function_parameters |-> parameters,
     response_properties_to_parametrize |-> properties,
     parametrizable_values |-> values,
     dependent_requests |-> children,
     target_table |-> table,
     top_level_data_address |-> top]

\* the heap the caller starts from, given what the orders template binds
InitialHeap(template_values) ==
    [n \in Nodes |->
        CASE n = "users" ->
                Configuration(UsersPath,
                    PyDict(<<Item(S_headers,
                                  PyDict(<<Item(S_Auth, PyStr(<<"o", "w", "n">>))>>))>>),
                    PyDict(<<Item(OrdersPath, UserIdProperty)>>),
                    Absent, ChildTemplates, PyStr(S_users), Absent)
          [] n = "admins" ->
                Configuration(AdminsPath, Absent,
                    PyDict(<<Item(OrdersPath, UserIdProperty)>>),
                    Absent, ChildTemplates, PyStr(<<"a", "d", "m">>),
                    PyList(<<PyStr(S_data)>>))
          [] n = "orders" ->
                Configuration(OrdersPath, Absent, PyDict(<<>>), template_values,
                              PyDict(<<>>), Absent, Absent)
          [] n = "status" ->
                Configuration(StatusPath, PyDict(<<>>), PyDict(<<>>), Absent,
                              PyDict(<<>>), PyStr(<<"s", "t">>), Absent)]

\* the body {"users": [{"id": 1}, ..., {"id": n}]}
UsersBody(n) ==
    PyDict(<<Item(S_users, PyList([i \in 1..n |-> PyDict(<<Item(S_id, PyInt(i))>>)]))>>)

\* the body b inside the envelope {"data": b}
Envelope(b) == PyDict(<<Item(S_data, b)>>)

\* the body [{"id": 1}, ..., {"id": n}]: the records as the top-level list
ListBody(n) == PyList([i \in 1..n |-> PyDict(<<Item(S_id, PyInt(i))>>)])

Bodies == {UsersBody(n) : n \in 0..MaxRecords} \cup {Envelope(UsersBody(n)) : n \in 0..MaxRecords}

FailureStatuses == {201, 204, 404, 500}

Responses ==
    {[status_code |-> 200, body |-> b] : b \in Bodies}
    \cup {[status_code |-> c, body |-> UsersBody(1)] : c \in FailureStatuses}

NoError == [node |-> "", exc |-> ""]

\* the children that the calls made so far have returned to the caller
Returned ==
    {n \in Nodes : \E i \in 1..Len(calls) :
        /\ calls[i].fn = "fetcher"
        /\ calls[i].outcome.ok
        /\ \E j \in 1..Len(calls[i].outcome.v.dependent_requests.v) :
              calls[i].outcome.v.dependent_requests.v[j].value = n}

Called(fn, node, out, response) ==
    [fn |-> fn, node |-> node, generation |-> Generation(node),
     request |-> out.request,
     status_code |-> IF out.request = NoRequest THEN 0 ELSE response.status_code,
     body |-> IF out.request = NoRequest THEN PyNone ELSE response.body,
     parsed |-> out.parsed, injected |-> out.injected, outcome |-> out.outcome,
     before |-> heap, after |-> out.heap]

\* a call that reaches no transport
Local(fn, node, value) ==
    [fn |-> fn, node |-> node, generation |-> Generation(node),
     request |-> NoRequest, status_code |-> 0, body |-> PyNone,
     parsed |-> FALSE, injected |-> FALSE, outcome |-> Return(value),
     before |-> heap, after |-> heap]

SqlIdle ==
    /\ schema = <<>>
    /\ property_name = ""
    /\ property_value = PyNone
    /\ sql_out = NotCalled

AddressIdle ==
    /\ data = PyNone
    /\ address = PyNone
    /\ nested = [address |-> PyNone, leaf |-> PyNone]
    /\ addr_out = NotCalled

FetchIdle ==
    /\ heap = InitialHeap(PyNone)
    /\ calls = <<>>
    /\ error = NoError

ParseIdle ==
    /\ sql_response = PyDict(<<>>)
    /\ parse_out = NotCalled

PathIdle ==
    /\ url_path = <<>>
    /\ url_parameters = PyNone
    /\ url_out = NotCalled

HttpIdle ==
    /\ http_verb = ""
    /\ http_headers = PyDict(<<>>)
    /\ http_payload = PyNone
    /\ http_status = 0
    /\ http_out = NotCalled

TemplateValues == {PyNone, PyDict(<<Item(S_userID, PyStr(<<"7">>))>>)}

Init ==
    /\ \E values \in TemplateValues : heap = InitialHeap(values)
    /\ calls = <<>>
    /\ error = NoError
    /\ SqlIdle
    /\ AddressIdle
    /\ ParseIdle
    /\ PathIdle
    /\ HttpIdle

\* fetcher is called on a root, or on a child an earlier call returned
FetcherCall(node, response) ==
    /\ error = NoError
    /\ node \in Roots \cup Returned
    /\ LET out == fetcher(heap, node, Engine, response)
       IN  /\ heap' = out.heap
           /\ calls' = Append(calls, Called("fetcher", node, out, response))
           /\ error' = IF out.outcome.ok THEN NoError
                       ELSE [node |-> node, exc |-> out.outcome.exc]
    /\ UNCHANGED <<sql_vars, addr_vars, parse_vars, path_vars, http_vars>>

\* the caller calls fetcher
Fetch(node, response) ==
    /\ Len(calls) < MaxCalls
    /\ FetcherCall(node, response)

\* the caller hands the result of an earlier call to dependency_extractor
ExtractDependencies(i) ==
    /\ error = NoError
    /\ Len(calls) < MaxCalls
    /\ calls[i].fn = "fetcher"
    /\ calls[i].outcome.ok
    /\ calls' = Append(calls, Local("dependency_extractor", calls[i].node,
                                    dependency_extractor(calls[i].outcome.v)))
    /\ UNCHANGED <<heap, error, sql_vars, addr_vars, parse_vars, path_vars, http_vars>>

\* the caller calls dependent_fetcher on a child an earlier call returned
FetchDependent(node) ==
    /\ error = NoError
    /\ Len(calls) < MaxCalls
    /\ node \in Returned
    /\ calls' = Append(calls, Local("dependent_fetcher", node,
                                    dependent_fetcher(heap[node], Engine)))
    /\ UNCHANGED <<heap, error, sql_vars, addr_vars, parse_vars, path_vars, http_vars>>

Next ==
    \/ \E node \in Nodes, response \in Responses : Fetch(node, response)
    \/ \E i \in 1..Len(calls) : ExtractDependencies(i)
    \/ \E node \in Nodes : FetchDependent(node)

Spec == Init /\ [][Next]_vars

(***************************************************************************)
(* The resolution specification: the caller only calls fetcher, on         *)
(* configurations of more shapes (a root without target table, a template  *)
(* that binds parameters already), and the transport may also answer with  *)
(* the records as a top-level list.                                        *)
(***************************************************************************)
MaxResolutions == 2

S_page == <<"p", "a", "g", "e">>

\* what the orders template binds before any response: nothing, a user id, or
\* a user id after another parameter
ResolveTemplates ==
    TemplateValues
    \cup {PyDict(<<Item(S_page, PyStr(<<"2">>)), Item(S_userID, PyStr(<<"7">>))>>)}

\* the admins root with its target table set, or without the key
RootTables == {Absent, PyStr(<<"a", "d", "m">>)}

ResolveResponses ==
    Responses \cup {[status_code |-> 200, body |-> ListBody(n)] : n \in 1..MaxRecords}

InitResolve ==
    /\ \E values \in ResolveTemplates, table \in RootTables :
          heap = [InitialHeap(values) EXCEPT !["admins"].target_table = table]
    /\ calls = <<>>
    /\ error = NoError
    /\ SqlIdle
    /\ AddressIdle
    /\ ParseIdle
    /\ PathIdle
    /\ HttpIdle

Resolve(node, response) ==
    /\ Len(calls) < MaxResolutions
    /\ FetcherCall(node, response)

NextResolve == \E node \in Nodes, response \in ResolveResponses : Resolve(node, response)

SpecResolve == InitResolve /\ [][NextResolve]_vars

(***************************************************************************)
(* The coercion specification: a schema and a raw value are chosen, then   *)
(* get_sql is called once.                                                 *)
(***************************************************************************)
InitSql ==
    /\ \E ps \in PropertySchemas : schema = [n \in {"prop"} |-> ps]
    /\ property_name \in PropertyNames
    /\ property_value \in RawValues
    /\ sql_out = NotCalled
    /\ AddressIdle
    /\ FetchIdle
    /\ ParseIdle
    /\ PathIdle
    /\ HttpIdle

GetSql ==
    /\ sql_out = NotCalled
    /\ sql_out' = get_sql(schema, property_name, property_value)
    /\ UNCHANGED <<schema, property_name, property_value, addr_vars, fetch_vars, parse_vars, path_vars, http_vars>>

NextSql == GetSql

SpecSql == InitSql /\ [][NextSql]_vars

(***************************************************************************)
(* The address specification: a payload is built by nesting an address     *)
(* around a leaf, an address is chosen, and get_data_at_address is called  *)
(* once.                                                                   *)
(***************************************************************************)
InitAddress ==
    /\ \E a \in NestingAddresses, leaf \in Leaves :
          /\ nested = [address |-> a, leaf |-> leaf]
          /\ data = Nest(a.v, leaf)
    /\ address \in Addresses \cup {PyNone}
    /\ addr_out = NotCalled
    /\ SqlIdle
    /\ FetchIdle
    /\ ParseIdle
    /\ PathIdle
    /\ HttpIdle

GetDataAtAddress ==
    /\ addr_out = NotCalled
    /\ addr_out' = get_data_at_address(data, address)
    /\ UNCHANGED <<data, address, nested, sql_vars, fetch_vars, parse_vars, path_vars, http_vars>>

NextAddress == GetDataAtAddress

SpecAddress == InitAddress /\ [][NextAddress]_vars

(***************************************************************************)
(* The response specification: a response is chosen for a schema of three  *)
(* properties, then parse_response_into_sql is called once.                *)
(***************************************************************************)
MaxResponse == 3

\* properties of the schema in the docstring of parse_response_into_sql
ParseSchema ==
    [codigo |-> [type |-> PyStr(S_number), format |-> PyStr(S_int32)],
     status |-> [type |-> PyStr(S_string)],
     total_liquido |-> [type |-> PyStr(S_number)]]

ResponseItems ==
    {Item(key, value) :
        key \in {"codigo", "status", "inexistent_property"},
        value \in {PyInt(624), PyStr(<<"a", "b", "c">>), PyNone}}

\* the responses: dicts of at most MaxResponse properties, in every order
SqlResponses ==
    {PyDict(r) : r \in {q \in SeqsUpTo(ResponseItems, MaxResponse) :
                            \A i, j \in 1..Len(q) : q[i].key = q[j].key => i = j}}

InitParse ==
    /\ schema = ParseSchema
    /\ property_name = ""
    /\ property_value = PyNone
    /\ sql_out = NotCalled
    /\ sql_response \in SqlResponses
    /\ parse_out = NotCalled
    /\ AddressIdle
    /\ FetchIdle
    /\ PathIdle
    /\ HttpIdle

ParseResponseIntoSql ==
    /\ parse_out = NotCalled
    /\ parse_out' = parse_response_into_sql(schema, sql_response)
    /\ UNCHANGED <<sql_response, sql_vars, addr_vars, fetch_vars, path_vars, http_vars>>

NextParse == ParseResponseIntoSql

SpecParse == InitParse /\ [][NextParse]_vars

(***************************************************************************)
(* The path specification: a path and its parameters are chosen, then      *)
(* path_maker is called once with the engine's base URL.                   *)
(***************************************************************************)
MaxParameters == 2

\* paths without token, with one, with two, with the same one twice
Paths ==
    {<<"/", "s">>,
     <<"/", "{", "a", "}">>,
     <<"/", "{", "a", "}", "/", "{", "b", "}">>,
     <<"/", "{", "a", "}", "/", "{", "a", "}">>}

ParameterNames == {<<"a">>, <<"b">>}

\* a value, a value that reads as a token, the empty value, and a number as
\* the JSON of a response holds it
ParameterValues == {PyStr(<<"x">>), PyStr(<<"{", "b", "}">>), PyStr(<<>>), PyInt(1)}

PathParameters ==
    {PyNone}
    \cup {PyDict(q) : q \in {r \in SeqsUpTo({Item(name, value) : name \in ParameterNames,
                                                                 value \in ParameterValues},
                                             MaxParameters) :
                                \A i, j \in 1..Len(r) : r[i].key = r[j].key => i = j}}

InitPath ==
    /\ url_path \in Paths
    /\ url_parameters \in PathParameters
    /\ url_out = NotCalled
    /\ SqlIdle
    /\ AddressIdle
    /\ FetchIdle
    /\ ParseIdle
    /\ HttpIdle

PathMaker ==
    /\ url_out = NotCalled
    /\ url_out' = path_maker(Engine.base_url, url_path, url_parameters)
    /\ UNCHANGED <<url_path, url_parameters, sql_vars, addr_vars, fetch_vars, parse_vars, http_vars>>

NextPath == PathMaker

SpecPath == InitPath /\ [][NextPath]_vars

(***************************************************************************)
(* The request specification: a verb, headers, a payload and the server's  *)
(* answer are chosen, then the generic callable of the verb is called once *)
(* on the URL of the users root.                                           *)
(***************************************************************************)
Verbs == {"get", "put", "post", "delete"}

HeaderSets ==
    {PyDict(<<>>),
     PyDict(<<Item(S_Auth, PyStr(<<"e", "n", "g">>))>>),
     PyDict(<<Item(S_User_Agent, PyStr(<<"o", "w", "n">>))>>)}

Payloads == {PyNone, PyDict(<<>>), PyDict(<<Item(S_page, PyInt(2))>>)}

Statuses == {200} \cup FailureStatuses

InitHttp ==
    /\ http_verb \in Verbs
    /\ http_headers \in HeaderSets
    /\ http_payload \in Payloads
    /\ http_status \in Statuses
    /\ http_out = NotCalled
    /\ SqlIdle
    /\ AddressIdle
    /\ FetchIdle
    /\ ParseIdle
    /\ PathIdle

GenericRequest ==
    /\ http_out = NotCalled
    /\ LET url == Engine.base_url \o UsersPath
       IN  http_out' =
            CASE http_verb = "get" -> GenericGET(url, http_headers, http_payload, http_status)
              [] http_verb = "put" -> GenericPUT(url, http_headers, http_payload, http_status)
              [] http_verb = "post" -> GenericPOST(url, http_headers, http_payload, http_status)
              [] http_verb = "delete" ->
                    GenericDELETE(url, http_headers, http_payload, http_status)
    /\ UNCHANGED <<http_verb, http_headers, http_payload, http_status,
                   sql_vars, addr_vars, fetch_vars, parse_vars, path_vars>>

NextHttp == GenericRequest

SpecHttp == InitHttp /\ [][NextHttp]_vars

(***************************************************************************)
(* Properties of the coercion.                                             *)
(***************************************************************************)
\* get_sql has been called on the property the schema holds
Coerced == sql_out # NotCalled /\ property_name = "prop"

TheProperty == schema["prop"]

HasKey(d, key) == key \in DOMAIN d

\* the property's format is a str that contains "date"
FormatNamesDate(d) == HasKey(d, "format") /\ Contains(d["format"].v, S_date)

\* the SQL type of the first coercion rule the property matches, Absent when it
\* matches none
RuleType(d) ==
    LET type == DictGet(d, "type")
        format == DictGet(d, "format")
    IN  IF /\ type = PyStr(S_array) /\ HasKey(d, "items")
           /\ d["items"]["type"] \in {PyStr(S_number), PyStr(S_string)}
        THEN PyStr(S_VARCHAR_MAX)
        ELSE IF type = PyStr(S_string) /\ HasKey(d, "maxLength")
        THEN PyStr(<<"V", "A", "R", "C", "H", "A", "R", "(">>
                   \o DecimalOf(d["maxLength"].v) \o <<")">>)
        ELSE IF HasKey(d, "pattern") /\ FormatNamesDate(d) THEN PyStr(S_DATETIME)
        ELSE IF format = PyStr(S_date_time) THEN PyStr(S_DATETIME)
        ELSE IF type = PyStr(S_string) THEN PyStr(S_VARCHAR_MAX)
        ELSE IF type = PyStr(S_boolean) THEN PyStr(S_BIT)
        ELSE IF type = PyStr(S_number) /\ format = PyStr(S_int32) THEN PyStr(S_INT)
        ELSE IF type = PyStr(S_number) /\ format = PyStr(S_int64) THEN PyStr(S_BIGINT)
        ELSE IF type = PyStr(S_number) /\ format = PyNone THEN PyStr(S_FLOAT)
        ELSE IF type = PyStr(S_number) THEN format
        ELSE Absent

\* C7: for every property that matches a coercion rule, get_sql with a null raw
\* value returns the NULL sentinel typed with the SQL type of that rule, and
\* raises nothing.
C7_NullIsTypedSentinel ==
    (Coerced /\ property_value = PyNone /\ RuleType(TheProperty) # Absent)
        => /\ sql_out.ok
           /\ sql_out.v = SQLItem(PyStr(S_NULL), RuleType(TheProperty))

\* C8: for every string property with maxLength N and every str raw value v, the
\* text NULL included, get_sql returns type VARCHAR(N) and the literal N'v'.
C8_BoundedStringIsQuoted ==
    (/\ Coerced
     /\ DictGet(TheProperty, "type") = PyStr(S_string)
     /\ HasKey(TheProperty, "maxLength")
     /\ property_value.k = "str")
        => /\ sql_out.ok
           /\ sql_out.v.type = RuleType(TheProperty)
           /\ sql_out.v.value = PyStr(<<"N", "'">> \o property_value.v \o <<"'">>)

\* C9: a string property with maxLength is coerced as a bounded string whatever
\* its format and pattern: type VARCHAR(maxLength), a str value that is the
\* quoted literal of the raw value (the sentinel for a null), no date parsing.
C9_MaxLengthBeforeDates ==
    (/\ Coerced
     /\ DictGet(TheProperty, "type") = PyStr(S_string)
     /\ HasKey(TheProperty, "maxLength"))
        => /\ sql_out.ok
           /\ sql_out.v.type = PyStr(<<"V", "A", "R", "C", "H", "A", "R", "(">>
                                     \o DecimalOf(MaxLength) \o <<")">>)
           /\ sql_out.v.value.k = "str"
           /\ property_value = PyNone => sql_out.v.value = PyStr(S_NULL)
           /\ property_value \notin {PyNone, PyStr(S_NULL)} =>
                /\ SubSeq(sql_out.v.value.v, 1, 2) = <<"N", "'">>
                /\ sql_out.v.value.v[Len(sql_out.v.value.v)] = "'"
           /\ (property_value.k = "str" /\ property_value # PyStr(S_NULL)) =>
                sql_out.v.value = PyStr(<<"N", "'">> \o property_value.v \o <<"'">>)

\* C9 witness: a bounded string with a date format and a date pattern, coerced
\* from a raw value the pattern would have parsed.
C9_Witness ==
    /\ Coerced
    /\ DictGet(TheProperty, "type") = PyStr(S_string)
    /\ HasKey(TheProperty, "maxLength")
    /\ DictGet(TheProperty, "format") = PyStr(S_date)
    /\ HasKey(TheProperty, "pattern")
    /\ Strptime(property_value, TheProperty["pattern"]).ok
    /\ sql_out.ok
    /\ sql_out.v.value.k = "str"

\* the raw value is an integer, given as a number or as a str of digits
IntegralRaw ==
    \/ property_value.k = "int"
    \/ property_value.k = "str" /\ AllDigits(Unsigned(property_value.v))

IntegerOfRaw ==
    IF property_value.k = "int" THEN property_value.v
    ELSE Signed(property_value.v, NatOfDigits(Unsigned(property_value.v)))

\* what C10 says of a number property and an integral raw value
NumberCoercion ==
    LET format == DictGet(TheProperty, "format")
    IN  /\ format = PyStr(S_int32) =>
            sql_out.ok /\ sql_out.v = SQLItem(PyInt(IntegerOfRaw), PyStr(S_INT))
        /\ format = PyStr(S_int64) =>
            sql_out.ok /\ sql_out.v = SQLItem(PyInt(IntegerOfRaw), PyStr(S_BIGINT))
        /\ (format.k = "str" /\ format.v # <<>>
            /\ format \notin {PyStr(S_int32), PyStr(S_int64), PyStr(S_date_time)}) =>
            sql_out.ok /\ sql_out.v = SQLItem(property_value, format)

\* C10 as stated: for every number property and integral raw value, int32 gives
\* the integer typed INT, int64 the integer typed BIGINT, any other non-empty
\* format but date-time the raw value unchanged, typed with the format.
C10_NumberFormats ==
    (Coerced /\ DictGet(TheProperty, "type") = PyStr(S_number) /\ IntegralRaw)
        => NumberCoercion

\* C10 amended: the same, for the number properties that do not have both a
\* pattern and a format containing "date" (those go to the pattern-date rule).
C10_NumberFormatsUndated ==
    (/\ Coerced
     /\ DictGet(TheProperty, "type") = PyStr(S_number)
     /\ IntegralRaw
     /\ ~(HasKey(TheProperty, "pattern") /\ FormatNamesDate(TheProperty)))
        => NumberCoercion

\* C10 witness: an int32 number property that also has a pattern, coerced from a
\* str of digits to the integer.
C10_Witness ==
    /\ Coerced
    /\ DictGet(TheProperty, "type") = PyStr(S_number)
    /\ DictGet(TheProperty, "format") = PyStr(S_int32)
    /\ HasKey(TheProperty, "pattern")
    /\ property_value = PyStr(<<"6", "2", "4">>)
    /\ sql_out = Return(SQLItem(PyInt(624), PyStr(S_INT)))

(***************************************************************************)
(* Properties of the fetcher.                                              *)
(***************************************************************************)
\* call i is a fetcher call whose request the transport answered
Answered(i) == calls[i].fn = "fetcher" /\ calls[i].request # NoRequest

\* call i is a fetcher call that returned a result
Resolved(i) == calls[i].fn = "fetcher" /\ calls[i].outcome.ok

\* C1: a fetch answered with a status other than 200 raises, returns nothing,
\* and neither reads the body nor runs the extraction.
C1_Non200YieldsNothing ==
    \A i \in 1..Len(calls) :
        (Answered(i) /\ calls[i].status_code # 200)
            => /\ calls[i].outcome = Raise("BaseException")
               /\ ~calls[i].parsed
               /\ ~calls[i].injected

\* C1 witness: a fetch answered 201 has raised.
C1_Witness ==
    \E i \in 1..Len(calls) :
        /\ Answered(i)
        /\ calls[i].status_code = 201
        /\ calls[i].outcome = Raise("BaseException")

\* the ids of the records in the body of call i, in list order
RecordIds(i) ==
    LET body == calls[i].body
        users == IF body.k = "list" THEN body
                 ELSE IF DictHas(body.v, S_data)
                 THEN DictAt(DictAt(body.v, S_data).v, S_users)
                 ELSE DictAt(body.v, S_users)
    IN  [r \in 1..Len(users.v) |-> DictAt(users.v[r].v, S_id)]

\* the URL of the orders of the user with the given id
OrdersUrl(id) ==
    <<"a", "p", "i", "/", "u", "s", "e", "r", "s", "/">> \o StrOf(id)
    \o <<"/", "o", "r", "d", "e", "r", "s">>

\* the URLs requested for the orders template from call i on, in call order
RECURSIVE OrdersRequests(_)
OrdersRequests(i) ==
    IF i > Len(calls) THEN <<>>
    ELSE (IF calls[i].node = "orders" /\ calls[i].request # NoRequest
          THEN <<calls[i].request.url>> ELSE <<>>)
         \o OrdersRequests(i + 1)

\* C2: once the users root has answered N records and the caller has gone on to
\* the orders child, exactly N requests have been made for it, one per record,
\* to /users/<id>/orders.
C2_OneRequestPerRecord ==
    (/\ Len(calls) >= 2
     /\ calls[1].node = "users" /\ Resolved(1)
     /\ calls[2].node = "orders" /\ calls[2].fn = "fetcher")
        => LET ids == RecordIds(1)
               urls == OrdersRequests(2)
           IN  /\ Len(urls) = Len(ids)
               /\ \A r \in 1..Len(ids) :
                    Cardinality({u \in 1..Len(urls) : urls[u] = OrdersUrl(ids[r])}) = 1

\* the configurations the result of call i holds for the child path
ChildNodes(i, path) ==
    IF DictHas(calls[i].outcome.v.dependent_requests.v, path)
    THEN <<heap[DictAt(calls[i].outcome.v.dependent_requests.v, path)]>>
    ELSE <<>>

\* C3: a root resolved from a list of N records has produced N orders nodes, the
\* r-th binding userID to the id of the r-th record alone.
C3_OneNodePerRecord ==
    (/\ calls # <<>>
     /\ Resolved(Len(calls))
     /\ calls[Len(calls)].node \in Roots)
        => LET ids == RecordIds(Len(calls))
               nodes == ChildNodes(Len(calls), OrdersPath)
           IN  /\ Len(nodes) = Len(ids)
               /\ \A r \in 1..Len(ids) :
                    nodes[r].parametrizable_values = PyDict(<<Item(S_userID, ids[r])>>)

\* call i failed fatally: it raised, or was answered with a status other than 200
Failed(i) ==
    /\ calls[i].fn = "fetcher"
    /\ ~calls[i].outcome.ok \/ (Answered(i) /\ calls[i].status_code # 200)

C5_RoundTrip ==
    (addr_out # NotCalled /\ address = nested.address)
        => addr_out = Return(nested.leaf)

RECURSIVE StepFails(_, _)
\* some step of addr names a field the dict lacks, a position past the end of
\* the list, or indexes a scalar
StepFails(value, addr) ==
    IF addr = <<>> THEN FALSE
    ELSE CASE value.k = "dict" ->
                IF addr[1].k # "str" THEN FALSE
                ELSE IF DictHas(value.v, addr[1].v)
                THEN StepFails(DictAt(value.v, addr[1].v), Tail(addr))
                ELSE TRUE
           [] value.k = "list" ->
                IF addr[1].k # "int" THEN FALSE
                ELSE IF Subscript(value, addr[1]).ok
                THEN StepFails(Subscript(value, addr[1]).v, Tail(addr))
                ELSE TRUE
           [] OTHER -> TRUE

\* C6: get_data_at_address raises whenever a step of a non-empty address names
\* a missing field, an index out of range, or indexes a scalar.
C6_BadStepRaises ==
    (/\ addr_out # NotCalled
     /\ address # PyNone
     /\ address.v # <<>>
     /\ StepFails(data, address.v))
        => ~addr_out.ok

(***************************************************************************)
(* Properties of the coercion, continued.                                  *)
(***************************************************************************)
\* C11: for every property of the schema that matches no coercion rule (an
\* object, an array whose items are missing or of an unhandled type, a missing
\* type) and every raw value, get_sql raises the exception that says the type
\* cannot be handled, and returns no SQLItem.
C11_UnmatchedIsUnhandled ==
    (Coerced /\ RuleType(TheProperty) = Absent)
        => sql_out = Raise("Exception: SQL parsing cannot handle type")

\* C12: for every string property without maxLength that matches neither date
\* rule (a pattern without format and a format without "date" included) and
\* every raw value v other than None, get_sql returns the literal N'v' typed
\* VARCHAR(MAX) and raises nothing.
C12_PlainStringIsQuoted ==
    (/\ Coerced
     /\ DictGet(TheProperty, "type") = PyStr(S_string)
     /\ ~HasKey(TheProperty, "maxLength")
     /\ ~(HasKey(TheProperty, "pattern") /\ FormatNamesDate(TheProperty))
     /\ DictGet(TheProperty, "format") # PyStr(S_date_time)
     /\ property_value # PyNone)
        => sql_out = Return(SQLItem(PyStr(<<"N", "'">> \o StrOf(property_value) \o <<"'">>),
                                    PyStr(S_VARCHAR_MAX)))

(***************************************************************************)
(* Properties of parse_response_into_sql.                                  *)
(***************************************************************************)
Parsed == parse_out # NotCalled

\* get_sql on the i-th property of the response
CoercionOf(i) == get_sql(schema, sql_response.v[i].key, sql_response.v[i].value)

\* the properties of the response that the schema lacks
AbsentKeys ==
    {sql_response.v[i].key : i \in {j \in 1..Len(sql_response.v) :
                                        sql_response.v[j].key \notin DOMAIN schema}}

\* the i-th property is the first of the response whose coercion fails
FirstFailure(i) == ~CoercionOf(i).ok /\ \A j \in 1..(i - 1) : CoercionOf(j).ok

\* the result is the dict of the response's keys, each with its coercion, or an
\* exception that carries no part of a dict
WholeOrNothing ==
    /\ parse_out.ok =>
        /\ parse_out.v.k = "dict"
        /\ Len(parse_out.v.v) = Len(sql_response.v)
        /\ \A i \in 1..Len(sql_response.v) :
            /\ CoercionOf(i).ok
            /\ parse_out.v.v[i] = Item(sql_response.v[i].key, CoercionOf(i).v)
    /\ ~parse_out.ok => "v" \notin DOMAIN parse_out

\* C13 as stated: the result is whole or nothing, and a response with a key the
\* schema lacks fails with the exception "<name> not in provided schema" for
\* such a key.
C13_AbsentKeyIsTheError ==
    Parsed =>
        /\ WholeOrNothing
        /\ AbsentKeys # {} => \E name \in AbsentKeys : parse_out = NotInSchema(name)

\* C13 amended: the result is whole or nothing; a response with a key the schema
\* lacks fails; the exception is that of the first property, in the response's
\* order, whose coercion fails, which is "<name> not in provided schema" when
\* that property is one the schema lacks.
C13_FirstFailureIsTheError ==
    Parsed =>
        /\ WholeOrNothing
        /\ AbsentKeys # {} => ~parse_out.ok
        /\ \A i \in 1..Len(sql_response.v) :
            FirstFailure(i) =>
                /\ parse_out = CoercionOf(i)
                /\ sql_response.v[i].key \in AbsentKeys =>
                      parse_out = NotInSchema(sql_response.v[i].key)

\* C13 witness: a response whose first property was coerced and whose second
\* the schema lacks has failed with the exception that names the second.
C13_Witness ==
    /\ Parsed
    /\ Len(sql_response.v) >= 2
    /\ CoercionOf(1).ok
    /\ sql_response.v[2].key \in AbsentKeys
    /\ parse_out = NotInSchema(sql_response.v[2].key)

(***************************************************************************)
(* Properties of the resolution.                                           *)
(***************************************************************************)
\* the configuration the caller started with for the node sets no target table
Untabled(node) == calls # <<>> /\ calls[1].before[node].target_table = Absent

\* what call i would have done had the node's target table been set to its path
WithTable(i) ==
    fetcher([calls[i].before EXCEPT
                ![calls[i].node].target_table = PyStr(calls[i].before[calls[i].node].path)],
            calls[i].node, Engine,
            [status_code |-> calls[i].status_code, body |-> calls[i].body])

\* C14: for every node, root or child, configured without target table, the
\* result of its fetch carries the node's path as target table, and the fetch
\* fails only where it would have failed with the target table set.
C14_MissingTableIsThePath ==
    \A i \in 1..Len(calls) :
        (Answered(i) /\ Untabled(calls[i].node) /\ WithTable(i).outcome.ok)
            => /\ calls[i].outcome.ok
               /\ calls[i].outcome.v.target_table = PyStr(calls[i].before[calls[i].node].path)

\* the child paths in the dependent requests that call i returned
HandedOn(i) ==
    {calls[i].outcome.v.dependent_requests.v[j].key :
        j \in 1..Len(calls[i].outcome.v.dependent_requests.v)}

\* C15: the dependent requests a resolved root hands on are exactly the children
\* for which the extraction gave a non-empty list: the orders template when the
\* response held records, and nothing else.
C15_OnlyBoundChildrenHandedOn ==
    \A i \in 1..Len(calls) :
        (Resolved(i) /\ calls[i].node \in Roots)
            => HandedOn(i) = IF RecordIds(i) # <<>> THEN {OrdersPath} ELSE {}

\* the body of call i walked along the node's top_level_data_address, key by
\* key; the body itself when the node declares none
Unwrapped(i) ==
    LET top == calls[i].before[calls[i].node].top_level_data_address
    IN  IF top = Absent THEN Return(calls[i].body) ELSE WalkAddress(calls[i].body, top.v, 0)

\* the extractions of the node of call i, each read from the data of its result
ReadFromData(i) ==
    LET properties == calls[i].before[calls[i].node].response_properties_to_parametrize.v
    IN  \A p \in 1..Len(properties) :
            LET property == properties[p].value
                child == DictAt(calls[i].outcome.v.dependent_requests.v, properties[p].key)
                source == get_data_at_address(calls[i].outcome.v.data,
                                              property.parametrizable_proterty_address)
            IN  /\ source.ok
                /\ DictAt(calls[i].after[child].parametrizable_values.v,
                          property.path_parameter_name)
                   = ExtractedValues(source.v, PyStr(property.parametrizable_key)).v

\* C16: the result of a fetch answered 200 has the node's target table, and as
\* data the body unwrapped at the node's top_level_data_address (the whole body
\* when it declares none); the extraction reads that data.
C16_ResultIsUnwrappedBody ==
    \A i \in 1..Len(calls) :
        Resolved(i)
            => /\ calls[i].outcome.v.target_table = calls[i].before[calls[i].node].target_table
               /\ Unwrapped(i) = Return(calls[i].outcome.v.data)
               /\ ReadFromData(i)

\* the keys of a dict, in order
KeysOf(d) == [j \in 1..Len(d.v) |-> d.v[j].key]

\* what the orders template bound before call i, and what it binds after it
TemplateBefore(i) ==
    IF calls[i].before["orders"].parametrizable_values = PyNone THEN PyDict(<<>>)
    ELSE calls[i].before["orders"].parametrizable_values

TemplateAfter(i) == calls[i].after["orders"].parametrizable_values

\* C17: after the extraction of a resolved root, the orders child binds userID
\* to the ids of the records in list order, whatever the template bound to
\* userID before, and binds every other name to what the template bound.
C17_ExtractedValuesAreMerged ==
    \A i \in 1..Len(calls) :
        (Resolved(i) /\ calls[i].node \in Roots)
            => /\ TemplateAfter(i).k = "dict"
               /\ DictHas(TemplateAfter(i).v, S_userID)
               /\ DictAt(TemplateAfter(i).v, S_userID) = PyList(RecordIds(i))
               /\ \A j \in 1..Len(TemplateBefore(i).v) :
                    LET name == TemplateBefore(i).v[j].key
                    IN  /\ DictHas(TemplateAfter(i).v, name)
                        /\ name # S_userID =>
                              DictAt(TemplateAfter(i).v, name) = TemplateBefore(i).v[j].value
               /\ \A j \in 1..Len(TemplateAfter(i).v) :
                    \/ TemplateAfter(i).v[j].key = S_userID
                    \/ DictHas(TemplateBefore(i).v, TemplateAfter(i).v[j].key)

\* C17 witness: a template that bound page and userID has had userID replaced
\* by the two ids of a response and kept page.
C17_Witness ==
    \E i \in 1..Len(calls) :
        /\ Resolved(i)
        /\ calls[i].node \in Roots
        /\ TemplateBefore(i) =
              PyDict(<<Item(S_page, PyStr(<<"2">>)), Item(S_userID, PyStr(<<"7">>))>>)
        /\ TemplateAfter(i) =
              PyDict(<<Item(S_page, PyStr(<<"2">>)),
                       Item(S_userID, PyList(<<PyInt(1), PyInt(2)>>))>>)

\* the orders child of the result of call i, as it is now, binds userID to the
\* ids of the records of that call's response
StillHoldsItsValues(i) ==
    \A n \in 1..Len(ChildNodes(i, OrdersPath)) :
        LET values == ChildNodes(i, OrdersPath)[n].parametrizable_values
        IN  /\ values.k = "dict"
            /\ DictHas(values.v, S_userID)
            /\ DictAt(values.v, S_userID) = PyList(RecordIds(i))

\* C19: the resolution of a root leaves the child templates as they were, and
\* the orders child it returned keeps the values of its response through every
\* later resolution that uses the same template.
C19_TemplatesAreImmutable ==
    \A i \in 1..Len(calls) :
        (Resolved(i) /\ calls[i].node \in Roots)
            => /\ calls[i].after["orders"] = calls[i].before["orders"]
               /\ calls[i].after["status"] = calls[i].before["status"]
               /\ StillHoldsItsValues(i)

\* C20: every request fetcher makes carries, in its headers, every default
\* header of the engine with the engine's value.
C20_DefaultHeadersOnEveryRequest ==
    \A i \in 1..Len(calls) :
        Answered(i)
            => LET kwargs == calls[i].request.kwargs.v
               IN  /\ DictHas(kwargs, S_headers)
                   /\ \A h \in 1..Len(Engine.default_headers.v) :
                        /\ DictHas(DictAt(kwargs, S_headers).v, Engine.default_headers.v[h].key)
                        /\ DictAt(DictAt(kwargs, S_headers).v, Engine.default_headers.v[h].key)
                           = Engine.default_headers.v[h].value

(***************************************************************************)
(* Properties of path_maker.                                               *)
(***************************************************************************)
\* the parameters path_maker was given, as items; none for None
BoundItems == IF url_parameters = PyNone THEN <<>> ELSE url_parameters.v

\* the token {name} of the j-th parameter starts the text s
TokenStarts(s, items, j) == OccursAt(s, <<"{">> \o items[j].key \o <<"}">>, 1)

RECURSIVE Substituted(_, _)
\* the text s with every token of a bound parameter replaced by the parameter's
\* value, in one pass over s: what is put in is not read again
Substituted(s, items) ==
    IF s = <<>> THEN <<>>
    ELSE IF \E j \in 1..Len(items) : TokenStarts(s, items, j)
    THEN LET j == CHOOSE k \in 1..Len(items) : TokenStarts(s, items, k)
         IN  StrOf(items[j].value)
             \o Substituted(SubSeq(s, Len(items[j].key) + 3, Len(s)), items)
    ELSE <<s[1]>> \o Substituted(Tail(s), items)

\* the orders in which the items can be applied
Reorderings(items) ==
    {[i \in 1..Len(items) |-> items[f[i]]] :
        f \in {g \in [1..Len(items) -> 1..Len(items)] :
                  \A i, j \in 1..Len(items) : g[i] = g[j] => i = j}}

\* C18: path_maker returns the base URL followed by the path with every token
\* of a bound parameter replaced by the parameter's value and every other token
\* left as it is (the path itself without parameters), and returns the same for
\* every order of the parameters.
C18_TokensAreSubstituted ==
    url_out # NotCalled
        => /\ url_out = Return(Engine.base_url \o Substituted(url_path, BoundItems))
           /\ \A q \in Reorderings(BoundItems) :
                path_maker(Engine.base_url, url_path, PyDict(q)) = url_out

(***************************************************************************)
(* Properties of the generic request callables.                            *)
(***************************************************************************)
\* C21: each generic callable returns the Response that the HTTP call of its
\* verb produced, and the caller reads the server's status code from it.
C21_GenericReturnsTheResponse ==
    http_out # NotCalled
        => /\ http_out.made.func = http_verb
           /\ http_out.outcome = Return(http_out.made)
           /\ StatusCodeOf(http_out.outcome.v) = Return(http_status)

====
